---- MODULE Spec2Model ----
(***************************************************************************)
(* The countdown timer of the GNOME panel extension: the Timer state       *)
(* machine, the TimerPopup handlers that drive it, and the Mainloop        *)
(* timeout sources that refresh the panel (src/unnamed/part_001, the       *)
(* variant with sliders and a Timer that outlives the popup).              *)
(*                                                                         *)
(* Units.  GLib.get_real_time() counts microseconds; TLC's integers are    *)
(* 32 bits wide and cannot hold HOUR_TO_MS = 3 600 000 000.  Every         *)
(* timestamp of the model is therefore the source's timestamp divided by   *)
(* 1000 (milliseconds), and SECOND_TO_MS is 1000 instead of 1 000 000.     *)
(* The clock of the model only takes multiples of the 500 ms timeout       *)
(* interval, so the division by 1000 is exact and floor() of a quotient    *)
(* is the same in both units.                                              *)
(***************************************************************************)
EXTENDS Integers, Sequences, FiniteSets, TLC

----------------------------------------------------------------------------
(* Bounds of the model                                                     *)

\* the clock stops advancing after MaxClock timeout intervals
MaxClock == 4

\* at most MaxSources calls of Mainloop.timeout_add in one behaviour
MaxSources == 2

\* a Timer driven directly is followed for MaxCalls method calls
MaxCalls == 3

\* the single countdowns followed tick by tick last 1..MaxSeconds seconds
MaxSeconds == 5

\* a slider moved freely takes the positions k / SliderSteps, k in 0..SliderSteps
SliderSteps == 4

----------------------------------------------------------------------------
(* Program constants                                                       *)

STATE_PLAY == 0
STATE_PAUSE == 1
STATE_STOP == 2

SECOND_TO_MS == 1000
MINUTE_TO_MS == SECOND_TO_MS * 60
HOUR_TO_MS == SECOND_TO_MS * 60 * 60

MAX_HOURS == 10

\* Mainloop.timeout_add(500, ...): the refresh interval, in milliseconds
TIMEOUT_INTERVAL == 500

\* JavaScript null / undefined
Null == <<>>

\* ToNumber of a nullable number: null converts to 0 in arithmetic
ToNumber(x) == IF x = Null THEN 0 ELSE x[1]

----------------------------------------------------------------------------
(* class Time: <<hours, minutes, seconds>>                                 *)

Time(hours, minutes, seconds) == <<hours, minutes, seconds>>

Hours(time) == time[1]
Minutes(time) == time[2]
Seconds(time) == time[3]

Digit(d) ==
    CASE d = 0 -> "0" [] d = 1 -> "1" [] d = 2 -> "2" [] d = 3 -> "3"
      [] d = 4 -> "4" [] d = 5 -> "5" [] d = 6 -> "6" [] d = 7 -> "7"
      [] d = 8 -> "8" [] d = 9 -> "9"

\* String(n) of an integer
RECURSIVE String(_)
String(n) ==
    IF n < 0 THEN "-" \o String(-n)
    ELSE IF n < 10 THEN Digit(n)
    ELSE String(n \div 10) \o Digit(n % 10)

\* s.padStart(2, '0')
PadStart2(s) == IF Len(s) < 2 THEN "0" \o s ELSE s

getFormatted(time) ==
    PadStart2(String(Hours(time)))
        \o ":" \o PadStart2(String(Minutes(time)))
        \o ":" \o PadStart2(String(Seconds(time)))

----------------------------------------------------------------------------
(* JavaScript arithmetic of Timer.update                                   *)

\* Math.floor(m / unit) for unit > 0
FloorDiv(m, unit) == m \div unit

\* Math.floor(m / unit % 60): real division, then the remainder with the
\* sign of the dividend, then floor.  For m >= 0 this is floor(m/unit) mod 60;
\* for m < 0 the remainder is -(|m|/unit mod 60), whose floor is
\* -(ceil(|m|/unit) - 60 * floor(|m| / (60 * unit))).
FloorMod60(m, unit) ==
    IF m >= 0 THEN (m \div unit) % 60
    ELSE -((((-m) + unit - 1) \div unit) - 60 * ((-m) \div (60 * unit)))

----------------------------------------------------------------------------
(* class Timer: [state, mcsLeft, pauseTimestamp, finishTimestamp, time]    *)

\* new Timer(): no time given, so this.time stays undefined
NewTimer ==
    [ mcsLeft |-> Null, pauseTimestamp |-> Null, finishTimestamp |-> Null,
      time |-> Null, state |-> STATE_STOP ]

setTime(t, time) ==
    [t EXCEPT !.time = Time(Hours(time), Minutes(time), Seconds(time))]

isPaused(t) == t.state = STATE_PAUSE
isPlaying(t) == t.state = STATE_PLAY
isStopped(t) == t.state = STATE_STOP

stop(t) == [t EXCEPT !.time = Time(0, 0, 0), !.state = STATE_STOP]

\* update() as it would be with Math.round in place of Math.floor
update_Rounds(t, now) ==
    IF isPaused(t) THEN t
    ELSE LET m  == ToNumber(t.finishTimestamp) - now
             t1 == [t EXCEPT !.mcsLeft = <<m>>]
             t2 == IF m <= 0 THEN stop(t1) ELSE t1
             Round60(unit) ==
                 IF m >= 0
                 THEN (2 * (m % (60 * unit)) + unit) \div (2 * unit)
                 ELSE FloorMod60(m, unit)
         IN  [t2 EXCEPT !.time = Time((2 * m + HOUR_TO_MS) \div (2 * HOUR_TO_MS),
                                      Round60(MINUTE_TO_MS),
                                      Round60(SECOND_TO_MS))]

\* update() as it would be without the expiry check: a deadline that has
\* passed leaves the Timer Playing
update_NoExpiry(t, now) ==
    IF isPaused(t) THEN t
    ELSE LET m  == ToNumber(t.finishTimestamp) - now
             t1 == [t EXCEPT !.mcsLeft = <<m>>]
         IN  [t1 EXCEPT !.time = Time(FloorDiv(m, HOUR_TO_MS),
                                      FloorMod60(m, MINUTE_TO_MS),
                                      FloorMod60(m, SECOND_TO_MS))]

\* update() as it would be without the early return while Paused
update_NoPauseGuard(t, now) ==
    LET m  == ToNumber(t.finishTimestamp) - now
        t1 == [t EXCEPT !.mcsLeft = <<m>>]
        t2 == IF m <= 0 THEN stop(t1) ELSE t1
    IN  [t2 EXCEPT !.time = Time(FloorDiv(m, HOUR_TO_MS),
                                 FloorMod60(m, MINUTE_TO_MS),
                                 FloorMod60(m, SECOND_TO_MS))]

\* update() as it would be with a countdown by decrement: one timeout
\* interval taken off the remaining time at every call after the first
update_Decrement(t, now) ==
    IF isPaused(t) THEN t
    ELSE LET m  == IF t.mcsLeft = Null \/ ~isPlaying(t) \/ t.mcsLeft[1] <= 0
                   THEN ToNumber(t.finishTimestamp) - now
                   ELSE t.mcsLeft[1] - TIMEOUT_INTERVAL
             t1 == [t EXCEPT !.mcsLeft = <<m>>]
             t2 == IF m <= 0 THEN stop(t1) ELSE t1
         IN  [t2 EXCEPT !.time = Time(FloorDiv(m, HOUR_TO_MS),
                                      FloorMod60(m, MINUTE_TO_MS),
                                      FloorMod60(m, SECOND_TO_MS))]

\* update() reading the clock at `now`
update(t, now) ==
    IF isPaused(t) THEN t
    ELSE LET m  == ToNumber(t.finishTimestamp) - now
             t1 == [t EXCEPT !.mcsLeft = <<m>>]
             t2 == IF m <= 0 THEN stop(t1) ELSE t1
         IN  [t2 EXCEPT !.time = Time(FloorDiv(m, HOUR_TO_MS),
                                      FloorMod60(m, MINUTE_TO_MS),
                                      FloorMod60(m, SECOND_TO_MS))]

\* start() reading the clock at `now`, its update() at `now2 >= now`
start(t, now, now2) ==
    LET finish == now + SECOND_TO_MS * Seconds(t.time)
                      + MINUTE_TO_MS * Minutes(t.time)
                      + HOUR_TO_MS * Hours(t.time)
    IN  update([t EXCEPT !.finishTimestamp = <<finish>>, !.state = STATE_PLAY],
               now2)

\* pause() as it would be if it kept a pauseTimestamp that is already set
\* (stop() does not clear the one of a countdown stopped while Paused)
pause_KeepsTimestamp(t, now) ==
    [t EXCEPT !.pauseTimestamp = IF @ = Null THEN <<now>> ELSE @,
              !.state = STATE_PAUSE]

pause(t, now) == [t EXCEPT !.pauseTimestamp = <<now>>, !.state = STATE_PAUSE]

\* resume() as it would be without the shift of the deadline
resume_NoShift(t, now) ==
    [t EXCEPT !.pauseTimestamp = Null, !.state = STATE_PLAY]

resume(t, now) ==
    [t EXCEPT !.finishTimestamp =
                  <<ToNumber(t.finishTimestamp) + (now - ToNumber(t.pauseTimestamp))>>,
              !.pauseTimestamp = Null,
              !.state = STATE_PLAY]

----------------------------------------------------------------------------
(* State                                                                   *)

VARIABLES
    clock,        \* GLib.get_real_time(), in milliseconds
    timer,        \* Extension.timer, the Timer that outlives the popup
    timerPopup,   \* Extension.timerPopup: Null, or <<the TimerPopup's fields>>
    sources,      \* the live Mainloop timeout sources: [id, due, orphan]
    nextId,       \* the id the next Mainloop.timeout_add returns
    notified,     \* Main.notify('Done!') calls since the latest startTimer()
    handler,      \* the handler that ran last
    calls,        \* the Timer methods that handler called, in order, each with
                  \* the clock it read and the Timer when it returned
    run           \* the countdown in progress as the user saw it: the instant
                  \* of its start, its configured duration, the time spent
                  \* paused, the instant of the pause in progress, and
                  \* whether the user stopped it before its deadline

vars == <<clock, timer, timerPopup, sources, nextId, notified, handler, calls, run>>

----------------------------------------------------------------------------
(* Mainloop: timeout sources                                               *)

\* Mainloop.timeout_add(TIMEOUT_INTERVAL, callback) at `now`: a source that is
\* first dispatched no earlier than one interval later
timeout_add(srcs, id, now) ==
    srcs \cup {[id |-> id, due |-> now + TIMEOUT_INTERVAL, orphan |-> FALSE]}

\* Mainloop.source_remove(tag): removes the source with that id; undefined
\* and the id of a source that is gone remove nothing
source_remove(srcs, tag) ==
    IF tag = Null THEN srcs ELSE {s \in srcs : s.id # tag[1]}

----------------------------------------------------------------------------
(* class TimerPopup                                                        *)
(* fields: [options, sliders, panelLabel, panelIcon, playLabel, timeout]   *)
(* A handler is a function of a context [timer, popup, sources, nextId,    *)
(* notified, calls] to the context it leaves behind.                       *)

playStateLabelMap(state) ==
    CASE state = STATE_PLAY  -> "Pause"
      [] state = STATE_PAUSE -> "Resume"
      [] state = STATE_STOP  -> "Start"

playStateIconMap(state) ==
    CASE state = STATE_PLAY  -> "media-playback-start-symbolic"
      [] state = STATE_PAUSE -> "media-playback-pause-symbolic"
      [] state = STATE_STOP  -> "media-playback-stop-symbolic"

\* a slider's value, a real in [0, 1], as the fraction <<num, den>>
SliderValue(num, den) == <<num, den>>

\* Math.round(scale * value): the nearest integer, halves rounded up
RoundScaled(scale, value) ==
    (2 * scale * value[1] + value[2]) \div (2 * value[2])

\* one Timer method call of a handler: the clock it read, the state it was
\* called in and the Timer when it returned
Call(op, now, from, t) == [op |-> op, now |-> now, from |-> from, timer |-> t]

updatePanelLabel(c, panelLabelText) ==
    LET text == IF panelLabelText # Null THEN panelLabelText[1]
                ELSE IF isStopped(c.timer) THEN getFormatted(c.popup.options)
                ELSE getFormatted(c.timer.time)
    IN  [c EXCEPT !.popup.panelLabel = text,
                  !.popup.panelIcon = playStateIconMap(c.timer.state)]

stopDisplayingTime(c) ==
    [c EXCEPT !.sources = source_remove(c.sources, c.popup.timeout)]

stopTimer(c, panelLabelText) ==
    LET c1 == stopDisplayingTime(c)
        t  == stop(c1.timer)
        c2 == [c1 EXCEPT !.timer = t, !.calls = Append(@, Call("stop", Null, c1.timer.state, t))]
        c3 == updatePanelLabel(c2, panelLabelText)
    IN  [c3 EXCEPT !.popup.playLabel = playStateLabelMap(STATE_STOP)]

\* updateTimer() reading the clock at `now`: the context it leaves and the
\* value it returns (TRUE keeps the timeout source, FALSE removes it)
updateTimer(c, now) ==
    LET t  == update(c.timer, now)
        c1 == [c EXCEPT !.timer = t, !.calls = Append(@, Call("update", <<now>>, c.timer.state, t))]
    IN  IF isStopped(t)
        THEN [ctx |-> [stopTimer(c1, <<"Done!">>) EXCEPT !.notified = @ + 1],
              again |-> FALSE]
        ELSE [ctx |-> updatePanelLabel(c1, Null), again |-> TRUE]

startDisplayingTime(c, now) ==
    LET c1 == updateTimer(c, now).ctx   \* call before the timeout
    IN  [c1 EXCEPT !.popup.timeout = <<c1.nextId>>,
                   !.sources = timeout_add(c1.sources, c1.nextId, now),
                   !.nextId = @ + 1]

\* startTimer() as it would be without setTime(this.options.time)
startTimer_KeepsTime(c, now1, now2, now3) ==
    LET t2 == start(c.timer, now1, now2)
        c1 == [c EXCEPT !.timer = t2,
                        !.notified = 0,
                        !.calls = Append(@, Call("start", <<now2>>, c.timer.state, t2))]
    IN  startDisplayingTime(c1, now3)

\* startTimer(): start() reads the clock at now1, the update() inside it at
\* now2 and the update() of startDisplayingTime at now3
startTimer(c, now1, now2, now3) ==
    LET t1 == setTime(c.timer, c.popup.options)
        t2 == start(t1, now1, now2)
        c1 == [c EXCEPT !.timer = t2,
                        !.notified = 0,
                        !.calls = @ \o <<Call("setTime", Null, c.timer.state, t1),
                                         Call("start", <<now2>>, t1.state, t2)>>]
    IN  startDisplayingTime(c1, now3)

handleTimeInput(c) ==
    LET time == Time(RoundScaled(MAX_HOURS, c.popup.sliders.hours),
                     RoundScaled(60, c.popup.sliders.minutes),
                     RoundScaled(60, c.popup.sliders.seconds))
    IN  updatePanelLabel([c EXCEPT !.popup.options = time], Null)

\* _init() as it would be if each popup made a Timer of its own
PopupInit_NewTimer(c, now) ==
    LET defaultTime == Time(0, 40, 0)
        t  == setTime(NewTimer, defaultTime)
        p  == [ options    |-> defaultTime,
                sliders    |-> [ hours   |-> SliderValue(Hours(defaultTime), MAX_HOURS),
                                 minutes |-> SliderValue(Minutes(defaultTime), 60),
                                 seconds |-> SliderValue(Seconds(defaultTime), 60) ],
                panelLabel |-> getFormatted(defaultTime),
                panelIcon  |-> playStateIconMap(t.state),
                playLabel  |-> "Start",
                timeout    |-> Null ]
    IN  [c EXCEPT !.timer = t, !.popup = p,
                  !.calls = Append(@, Call("setTime", Null, c.timer.state, t))]

\* _init(timer) reading the clock at `now` (when the Timer is not stopped)
PopupInit(c, now) ==
    LET defaultTime == Time(0, 40, 0)
        t  == IF isStopped(c.timer) THEN setTime(c.timer, defaultTime) ELSE c.timer
        p  == [ options    |-> defaultTime,
                sliders    |-> [ hours   |-> SliderValue(Hours(defaultTime), MAX_HOURS),
                                 minutes |-> SliderValue(Minutes(defaultTime), 60),
                                 seconds |-> SliderValue(Seconds(defaultTime), 60) ],
                panelLabel |-> getFormatted(defaultTime),
                panelIcon  |-> playStateIconMap(c.timer.state),
                playLabel  |-> "Start",
                timeout    |-> Null ]
        c1 == [c EXCEPT !.timer = t, !.popup = p,
                        !.calls = IF isStopped(c.timer)
                                  THEN Append(@, Call("setTime", Null, c.timer.state, t)) ELSE @]
    IN  IF ~isStopped(c1.timer) THEN startDisplayingTime(c1, now) ELSE c1

\* destroy(): the popup's own timeout is removed; a source the popup no
\* longer holds in this.timeout stays live, bound to the destroyed popup
destroy(c) ==
    LET c1 == stopDisplayingTime(c)
    IN  [c1 EXCEPT !.sources = {[s EXCEPT !.orphan = TRUE] : s \in c1.sources}]

----------------------------------------------------------------------------
(* Inputs                                                                  *)

\* the slider moves of the user: a slider and the value it is moved to.
\* The minutes go from the default 40/60 to 0; the seconds to 1/120
\* (60 * 1/120 = 0.5, which rounds up to 1) and back to 0.
SliderInputs ==
    { <<"minutes", SliderValue(0, 1)>>,
      <<"seconds", SliderValue(1, 120)>>,
      <<"seconds", SliderValue(0, 1)>> }

\* the time that may pass between two clock reads of one handler
HandlerDelays == {0, TIMEOUT_INTERVAL}

LastInstant == MaxClock * TIMEOUT_INTERVAL

----------------------------------------------------------------------------
(* The extension and its event handlers                                    *)

\* the fields of a destroyed popup, as a callback still bound to it finds
\* them: its timeout was removed by destroy(), its widgets are disposed
DisposedPopup ==
    [ options    |-> Time(0, 40, 0),
      sliders    |-> [ hours |-> SliderValue(0, 1), minutes |-> SliderValue(0, 1),
                       seconds |-> SliderValue(0, 1) ],
      panelLabel |-> "", panelIcon |-> "", playLabel |-> "", timeout |-> Null ]

\* the context a handler of popup `popup` starts in
Context(popup) ==
    [ timer |-> timer, popup |-> popup, sources |-> sources, nextId |-> nextId,
      notified |-> notified, calls |-> <<>> ]

\* the state a handler of the live popup leaves behind
Leave(c, name) ==
    /\ timer' = c.timer
    /\ timerPopup' = <<c.popup>>
    /\ sources' = c.sources
    /\ nextId' = c.nextId
    /\ notified' = c.notified
    /\ calls' = c.calls
    /\ handler' = name

\* the duration of a Time, in clock units
DurationOf(time) ==
    SECOND_TO_MS * (Seconds(time) + 60 * (Minutes(time) + 60 * Hours(time)))

\* init(): new Extension(), before the first enable()
Init ==
    /\ clock = TIMEOUT_INTERVAL
    /\ timer = NewTimer
    /\ timerPopup = Null
    /\ sources = {}
    /\ nextId = 1
    /\ notified = 0
    /\ handler = "init"
    /\ calls = <<>>
    /\ run = Null

\* Extension.enable(): new TimerPopup(this.timer)
Enable ==
    /\ timerPopup = Null
    /\ isStopped(timer) \/ nextId <= MaxSources
    /\ Leave(PopupInit(Context(Null), clock), "enable")
    /\ UNCHANGED <<clock, run>>

\* Extension.disable(): this.timerPopup.destroy(); this.timerPopup = null
Disable ==
    /\ timerPopup # Null
    /\ LET c == destroy(Context(timerPopup[1]))
       IN  /\ sources' = c.sources
           /\ timerPopup' = Null
           /\ calls' = c.calls
    /\ handler' = "disable"
    /\ UNCHANGED <<clock, timer, nextId, notified, run>>

\* a slider's notify::value signal -> handleTimeInput()
SliderInput ==
    /\ timerPopup # Null
    /\ \E input \in SliderInputs :
         LET c == Context([timerPopup[1] EXCEPT !.sliders[input[1]] = input[2]])
         IN  Leave(handleTimeInput(c), "slider")
    /\ UNCHANGED <<clock, run>>

\* handlePlayClick(), the Timer stopped: startTimer()
PlayClickStart ==
    /\ timerPopup # Null
    /\ isStopped(timer)
    /\ nextId <= MaxSources
    /\ \E d1 \in HandlerDelays, d2 \in HandlerDelays :
         /\ clock + d1 + d2 <= LastInstant
         /\ LET c == startTimer(Context(timerPopup[1]),
                                clock, clock + d1, clock + d1 + d2)
            IN  Leave([c EXCEPT !.popup.playLabel = playStateLabelMap(c.timer.state)],
                      "start")
         /\ clock' = clock + d1 + d2
    /\ run' = <<[ startedAt |-> clock,
                  duration  |-> DurationOf(timerPopup[1].options),
                  paused    |-> 0,
                  pausedAt  |-> Null,
                  userStopped |-> FALSE ]>>

\* PlayClickPause as it would be if the pause branch also called
\* stopDisplayingTime()
PlayClickPause_Unschedules ==
    /\ timerPopup # Null
    /\ isPlaying(timer)
    /\ LET c  == stopDisplayingTime(Context(timerPopup[1]))
           t  == pause(c.timer, clock)
       IN  Leave([c EXCEPT !.timer = t,
                           !.calls = Append(@, Call("pause", <<clock>>, c.timer.state, t)),
                           !.popup.playLabel = playStateLabelMap(t.state)],
                 "pause")
    /\ run' = <<[run[1] EXCEPT !.pausedAt = <<clock>>]>>
    /\ UNCHANGED clock

\* handlePlayClick(), the Timer playing: this.timer.pause()
PlayClickPause ==
    /\ timerPopup # Null
    /\ isPlaying(timer)
    /\ LET c  == Context(timerPopup[1])
           t  == pause(c.timer, clock)
       IN  Leave([c EXCEPT !.timer = t,
                           !.calls = Append(@, Call("pause", <<clock>>, c.timer.state, t)),
                           !.popup.playLabel = playStateLabelMap(t.state)],
                 "pause")
    /\ run' = <<[run[1] EXCEPT !.pausedAt = <<clock>>]>>
    /\ UNCHANGED clock

\* handlePlayClick(), the Timer paused: this.timer.resume()
PlayClickResume ==
    /\ timerPopup # Null
    /\ isPaused(timer)
    /\ LET c  == Context(timerPopup[1])
           t  == resume(c.timer, clock)
       IN  Leave([c EXCEPT !.timer = t,
                           !.calls = Append(@, Call("resume", <<clock>>, c.timer.state, t)),
                           !.popup.playLabel = playStateLabelMap(t.state)],
                 "resume")
    /\ run' = <<[run[1] EXCEPT !.paused = @ + (clock - run[1].pausedAt[1]),
                               !.pausedAt = Null]>>
    /\ UNCHANGED clock

handlePlayClick == PlayClickStart \/ PlayClickPause \/ PlayClickResume

\* a countdown is in progress and its deadline is still ahead at `now`
BeforeDeadline(t, now) ==
    \/ isPlaying(t) /\ t.finishTimestamp[1] > now
    \/ isPaused(t) /\ t.finishTimestamp[1] > t.pauseTimestamp[1]

\* the stop menu item: () => this.stopTimer()
StopClick ==
    /\ timerPopup # Null
    /\ Leave(stopTimer(Context(timerPopup[1]), Null), "stop")
    /\ run' = IF run # Null /\ BeforeDeadline(timer, clock)
              THEN <<[run[1] EXCEPT !.userStopped = TRUE]>>
              ELSE run
    /\ UNCHANGED clock

\* Mainloop dispatches a timeout source that is due: updateTimer() of the
\* popup it was registered by.  A source that returns true is due again one
\* interval after this dispatch; one that returns false is removed.  The
\* callback of an orphan runs on the destroyed popup: what it does to the
\* Timer, the sources and the notifications happens, what it writes to the
\* disposed widgets is lost.
Tick ==
    \E s \in sources :
      /\ s.due <= clock
      /\ LET r    == updateTimer(Context(IF s.orphan THEN DisposedPopup
                                         ELSE timerPopup[1]), clock)
             c    == r.ctx
             left == IF r.again
                     THEN (c.sources \ {s})
                              \cup {[s EXCEPT !.due = clock + TIMEOUT_INTERVAL]}
                     ELSE c.sources \ {s}
         IN  /\ timer' = c.timer
             /\ timerPopup' = IF s.orphan THEN timerPopup ELSE <<c.popup>>
             /\ sources' = left
             /\ notified' = c.notified
             /\ calls' = c.calls
      /\ handler' = "tick"
      /\ UNCHANGED <<clock, nextId, run>>

\* time passes: one timeout interval, with no handler running
Advance ==
    /\ clock + TIMEOUT_INTERVAL <= LastInstant
    /\ clock' = clock + TIMEOUT_INTERVAL
    /\ UNCHANGED <<timer, timerPopup, sources, nextId, notified, handler, calls, run>>

Next ==
    \/ Enable
    \/ Disable
    \/ SliderInput
    \/ PlayClickStart
    \/ PlayClickPause
    \/ PlayClickResume
    \/ StopClick
    \/ Tick
    \/ Advance

Spec == Init /\ [][Next]_vars

----------------------------------------------------------------------------
(* The Timer on its own: its methods called in any order                   *)

\* the durations a Timer is given
TimeInputs == { Time(0, 0, 0), Time(0, 0, 1), Time(1, 1, 1), Time(MAX_HOURS, 59, 59) }

\* new Timer(time)
TimerInit ==
    /\ clock = TIMEOUT_INTERVAL
    /\ \E time \in TimeInputs : timer = setTime(NewTimer, time)
    /\ timerPopup = Null
    /\ sources = {}
    /\ nextId = 1
    /\ notified = 0
    /\ handler = "new"
    /\ calls = <<>>
    /\ run = Null

\* the state a direct call of a Timer method leaves behind; here `calls`
\* holds every call since the construction, and a Timer is followed for
\* MaxCalls calls
Returned(op, now, t) ==
    /\ Len(calls) < MaxCalls
    /\ timer' = t
    /\ calls' = Append(calls, Call(op, <<now>>, timer.state, t))
    /\ handler' = op
    /\ UNCHANGED <<timerPopup, sources, nextId, notified, run>>

ApiSetTime ==
    /\ \E time \in TimeInputs : Returned("setTime", clock, setTime(timer, time))
    /\ UNCHANGED clock

ApiStart ==
    \E d \in HandlerDelays :
        /\ clock + d <= LastInstant
        /\ clock' = clock + d
        /\ Returned("start", clock + d, start(timer, clock, clock + d))

ApiPause ==
    /\ Returned("pause", clock, pause(timer, clock))
    /\ UNCHANGED clock

ApiResume ==
    /\ Returned("resume", clock, resume(timer, clock))
    /\ UNCHANGED clock

ApiStop ==
    /\ Returned("stop", clock, stop(timer))
    /\ UNCHANGED clock

ApiUpdate ==
    /\ Returned("update", clock, update(timer, clock))
    /\ UNCHANGED clock

TimerNext ==
    \/ ApiSetTime
    \/ ApiStart
    \/ ApiPause
    \/ ApiResume
    \/ ApiStop
    \/ ApiUpdate
    \/ Advance

TimerSpec == TimerInit /\ [][TimerNext]_vars

----------------------------------------------------------------------------
(* One countdown, ticks dispatched the instant they are due                *)

\* after enable(), the minutes slider moved to 0 and the seconds slider to
\* n/60 for a countdown of n seconds
CountdownInit ==
    /\ clock = TIMEOUT_INTERVAL
    /\ \E n \in 1..MaxSeconds :
         LET c0 == PopupInit([ timer |-> NewTimer, popup |-> DisposedPopup,
                               sources |-> {}, nextId |-> 1, notified |-> 0,
                               calls |-> <<>> ], TIMEOUT_INTERVAL)
             c1 == handleTimeInput([c0 EXCEPT !.popup.sliders.minutes = SliderValue(0, 1)])
             c2 == handleTimeInput([c1 EXCEPT !.popup.sliders.seconds = SliderValue(n, 60)])
         IN  /\ timer = c2.timer
             /\ timerPopup = <<c2.popup>>
             /\ sources = c2.sources
             /\ nextId = c2.nextId
             /\ notified = c2.notified
             /\ calls = <<>>
    /\ handler = "slider"
    /\ run = Null

\* the one play click, with no time passing inside the handler
CountdownStart ==
    /\ run = Null
    /\ PlayClickStart
    /\ clock' = clock

\* time passes while no source is due: up to the play click, and from it to
\* one interval past the deadline
PunctualAdvance ==
    /\ \A src \in sources : src.due > clock
    /\ clock + TIMEOUT_INTERVAL <=
           IF run = Null THEN LastInstant
           ELSE run[1].startedAt + run[1].duration + TIMEOUT_INTERVAL
    /\ clock' = clock + TIMEOUT_INTERVAL
    /\ UNCHANGED <<timer, timerPopup, sources, nextId, notified, handler, calls, run>>

CountdownNext ==
    \/ CountdownStart
    \/ Tick
    \/ PunctualAdvance

CountdownSpec == CountdownInit /\ [][CountdownNext]_vars

----------------------------------------------------------------------------
(* The sliders moved over their whole range                                *)

\* the positions of a slider: its value lies in [0, 1]
SliderPositions == { SliderValue(k, SliderSteps) : k \in 0..SliderSteps }

\* after enable(): the popup with its default duration
SliderInit ==
    /\ clock = TIMEOUT_INTERVAL
    /\ LET c == PopupInit([ timer |-> NewTimer, popup |-> DisposedPopup,
                            sources |-> {}, nextId |-> 1, notified |-> 0,
                            calls |-> <<>> ], TIMEOUT_INTERVAL)
       IN  /\ timer = c.timer
           /\ timerPopup = <<c.popup>>
           /\ sources = c.sources
           /\ nextId = c.nextId
           /\ notified = c.notified
           /\ calls = c.calls
    /\ handler = "enable"
    /\ run = Null

\* a slider's notify::value signal -> handleTimeInput(), the slider at any
\* of its positions
SliderMove ==
    /\ \E name \in {"hours", "minutes", "seconds"}, value \in SliderPositions :
         LET c == Context([timerPopup[1] EXCEPT !.sliders[name] = value])
         IN  Leave(handleTimeInput(c), "slider")
    /\ UNCHANGED <<clock, run>>

\* the slider moves before and after one play click
SliderNext ==
    \/ SliderMove
    \/ CountdownStart

SliderSpec == SliderInit /\ [][SliderNext]_vars

----------------------------------------------------------------------------
(* Observations used by the properties                                     *)

\* the Timer method calls of the latest handler that ran update(): a direct
\* update(), or the update() at the end of start()
UpdateCalls == {i \in DOMAIN calls : calls[i].op \in {"update", "start"}}

\* the latest handler ran an update() that found the deadline reached
ExpiryDetected ==
    \E i \in UpdateCalls :
        /\ calls[i].op = "start" \/ calls[i].from = STATE_PLAY
        /\ calls[i].timer.mcsLeft[1] <= 0

\* a Time whose components are in range
ValidTime(time) ==
    /\ Hours(time) >= 0
    /\ Minutes(time) >= 0 /\ Minutes(time) <= 59
    /\ Seconds(time) >= 0 /\ Seconds(time) <= 59

----------------------------------------------------------------------------
(* C1: a countdown that reaches its deadline emits the completion          *)
(* notification exactly once: never more than one Main.notify('Done!')     *)
(* per countdown, and one as soon as an update() has found the deadline    *)
(* reached.                                                                *)
C1_DoneExactlyOnce ==
    /\ notified <= 1
    /\ ExpiryDetected => notified = 1

(* C2: at most one refresh callback is scheduled at any time.              *)
C2_AtMostOneSource == Cardinality(sources) <= 1

(* C3: while the Timer is Stopped (between handlers) no refresh callback   *)
(* is scheduled.                                                           *)
C3_StoppedHasNoSource == isStopped(timer) => sources = {}

(* C4 as claimed: while the Timer is Paused no refresh callback is          *)
(* scheduled.                                                              *)
C4_PausedHasNoSource == isPaused(timer) => sources = {}

(* C4 as amended: a pause leaves the refresh loop running.  While the      *)
(* Timer is Paused and the popup exists, the source the popup holds in     *)
(* this.timeout is still scheduled, so ticks keep calling update().        *)
C4_PausedKeepsSource ==
    (isPaused(timer) /\ timerPopup # Null) =>
        \E s \in sources : <<s.id>> = timerPopup[1].timeout /\ ~s.orphan

\* a tick has run while the Timer was Paused, and its source is still live
C4_Witness ==
    /\ isPaused(timer)
    /\ handler = "tick"
    /\ timerPopup # Null
    /\ \E s \in sources : <<s.id>> = timerPopup[1].timeout

(* C5: when a Playing countdown reaches its deadline, the step that makes   *)
(* the Timer Stopped forwards the completion event ('Done!' is notified)   *)
(* and tears the refresh loop down: no callback remains scheduled after    *)
(* it.                                                                     *)
C5_ExpiryTearsDownLoop ==
    [][(isPlaying(timer) /\ isStopped(timer') /\ ExpiryDetected')
          => (notified' = notified + 1 /\ sources' = {})]_vars

(* C6: paused time is excluded from the countdown.  A resume() at t2 of a   *)
(* pause that began at t1 moves finishTimestamp forward by exactly         *)
(* t2 - t1 and clears pauseTimestamp, so an update() right after the       *)
(* resume computes the remaining time of the pause instant,                *)
(* finishTimestamp_before - t1, whatever the length of the pause.          *)
C6_ResumeExcludesPause ==
    [][(isPaused(timer) /\ isPlaying(timer')) =>
          LET t1 == run[1].pausedAt[1]
              t2 == clock'
          IN  /\ t2 >= t1
              /\ timer'.finishTimestamp = <<timer.finishTimestamp[1] + (t2 - t1)>>
              /\ timer'.pauseTimestamp = Null
              /\ update(timer', t2).mcsLeft = <<timer.finishTimestamp[1] - t1>>]_vars

\* a resume after a pause of two intervals has run
C6_Witness ==
    /\ handler = "resume"
    /\ isPlaying(timer)
    /\ run[1].paused >= 2 * TIMEOUT_INTERVAL

(* C7: the remaining time is derived from the absolute deadline only.      *)
(* After every update() executed while Playing, reading the clock at       *)
(* `now`, mcsLeft = (instant of the start + configured duration + time     *)
(* spent Paused since the start) - now, however many ticks fired, were     *)
(* late or were missed.                                                    *)
C7_RemainingFromDeadline ==
    \A i \in UpdateCalls :
        (calls[i].op = "start" \/ calls[i].from = STATE_PLAY) =>
            calls[i].timer.mcsLeft =
                <<(run[1].startedAt + run[1].duration + run[1].paused)
                      - calls[i].now[1]>>

\* a tick has updated a Playing Timer three intervals after the start of
\* the countdown, part of which was spent Paused
C7_Witness ==
    /\ handler = "tick"
    /\ isPlaying(timer)
    /\ run[1].paused > 0
    /\ clock = run[1].startedAt + 3 * TIMEOUT_INTERVAL
    /\ timer.mcsLeft = <<run[1].duration + run[1].paused - 3 * TIMEOUT_INTERVAL>>

\* hours * 3600 + minutes * 60 + seconds of a Time
TotalSeconds(time) == (Hours(time) * 60 + Minutes(time)) * 60 + Seconds(time)

(* C8: within one countdown the remaining time never increases.  Every     *)
(* update() made while Playing leaves an mcsLeft, and an                   *)
(* hours:minutes:seconds, no larger than the update() before it left,      *)
(* also when the Timer was paused and resumed in between.                  *)
C8_RemainingNonIncreasing ==
    [][\A i \in DOMAIN calls' :
          (isPlaying(timer) /\ calls'[i].op = "update") =>
              /\ calls'[i].timer.mcsLeft[1] <= timer.mcsLeft[1]
              /\ TotalSeconds(calls'[i].timer.time) <= TotalSeconds(timer.time)]_vars

\* a tick has updated a Playing Timer to a smaller remaining time after a
\* pause and a resume
C8_Witness ==
    /\ handler = "tick"
    /\ isPlaying(timer)
    /\ run[1].paused > 0
    /\ timer.mcsLeft[1] < run[1].duration
    /\ Seconds(timer.time) = 59

(* C9: update() while Paused is a no-op.  A handler that calls update()    *)
(* on a Paused Timer, at any clock value and any number of times, leaves   *)
(* state, finishTimestamp, pauseTimestamp, mcsLeft and the remaining       *)
(* hours, minutes and seconds as they were.                                *)
C9_UpdateWhilePausedIsNoOp ==
    [][(isPaused(timer) /\ \E i \in DOMAIN calls' : calls'[i].op = "update") =>
          /\ timer' = timer
          /\ \A i \in DOMAIN calls' : calls'[i].timer = timer]_vars

\* a tick has called update() on a Timer paused two intervals earlier, the
\* remaining time still that of the pause instant
C9_Witness ==
    /\ handler = "tick"
    /\ isPaused(timer)
    /\ calls[1].op = "update" /\ calls[1].now = <<clock>>
    /\ clock >= timer.pauseTimestamp[1] + 2 * TIMEOUT_INTERVAL
    /\ timer.mcsLeft[1] > timer.finishTimestamp[1] - clock

(* C10: whenever a Timer method has returned, the remaining duration has   *)
(* hours >= 0, 0 <= minutes <= 59 and 0 <= seconds <= 59; after an         *)
(* update() that found the deadline reached it is 00:00:00.                *)
C10_RemainingInRange ==
    /\ timer.time # Null => ValidTime(timer.time)
    /\ \A i \in DOMAIN calls :
          /\ ValidTime(calls[i].timer.time)
          /\ (calls[i].op = "update" /\ calls[i].from = STATE_PLAY
                  /\ calls[i].timer.mcsLeft[1] <= 0)
                => calls[i].timer.time = Time(0, 0, 0)

\* the HH:MM:SS texts whose three components are non-negative: the hours
\* up to MAX_HOURS and one carry, the minutes and seconds up to the 60 that
\* a slider at its right end gives
NonNegativeTexts ==
    { getFormatted(Time(h, m, sec)) :
          h \in 0..(MAX_HOURS + 1), m \in 0..60, sec \in 0..60 }

(* C11: a negative remaining time is never displayed.  The text of the     *)
(* panel label is always the completion text 'Done!' or an HH:MM:SS text   *)
(* whose three components are non-negative.                                *)
C11_NoNegativeLabel ==
    timerPopup # Null =>
        timerPopup[1].panelLabel \in NonNegativeTexts \cup {"Done!"}

\* a tick that found the deadline passed half a second earlier, so that
\* update() left negative components in the Timer, has written the label
C11_Witness ==
    /\ timerPopup # Null
    /\ handler = "tick"
    /\ timerPopup[1].panelLabel = "Done!"
    /\ \E i \in DOMAIN calls :
          calls[i].op = "update" /\ calls[i].from = STATE_PLAY
              /\ Seconds(calls[i].timer.time) < 0

(* C13: finishTimestamp is null in every reachable state in which the      *)
(* Timer is Stopped: stop() clears it, and only start() and resume()       *)
(* assign it.                                                              *)
C13_StoppedHasNoDeadline ==
    isStopped(timer) => timer.finishTimestamp = Null

(* C14: pauseTimestamp is non-null exactly while the Timer is Paused,      *)
(* also after pause followed by stop and after pause, stop, start.         *)
C14_PauseTimestampIffPaused ==
    (timer.pauseTimestamp # Null) <=> isPaused(timer)

(* C15: the persistent Timer survives disable() and enable().  disable()   *)
(* leaves the Timer as it is, and enable() while the Timer is Paused, or   *)
(* Playing with its deadline not yet passed, leaves state, finishTimestamp *)
(* and pauseTimestamp unchanged and starts the refresh loop again for the  *)
(* same countdown: the new popup holds a live source and the remaining     *)
(* time is the one of the running countdown, not the default duration.     *)
C15_DisableEnableKeepsCountdown ==
    [][ /\ Disable => timer' = timer
        /\ ( /\ Enable
             /\ \/ isPaused(timer)
                \/ isPlaying(timer) /\ timer.finishTimestamp[1] > clock )
           => /\ timer'.state = timer.state
              /\ timer'.finishTimestamp = timer.finishTimestamp
              /\ timer'.pauseTimestamp = timer.pauseTimestamp
              /\ isPaused(timer) => timer' = timer
              /\ isPlaying(timer) =>
                     timer'.mcsLeft = <<timer.finishTimestamp[1] - clock>>
              /\ timerPopup'[1].timeout # Null
              /\ \E src \in sources' :
                     src.id = timerPopup'[1].timeout[1] /\ ~src.orphan
      ]_vars

\* enable() has found the countdown of an earlier popup Playing, one
\* interval after its start, and has scheduled the refresh loop for it
C15_Witness ==
    /\ handler = "enable"
    /\ isPlaying(timer)
    /\ run # Null
    /\ clock = run[1].startedAt + TIMEOUT_INTERVAL
    /\ timer.finishTimestamp = <<run[1].startedAt + run[1].duration>>
    /\ timer.mcsLeft = <<run[1].duration - TIMEOUT_INTERVAL>>
    /\ \E src \in sources : timerPopup[1].timeout = <<src.id>> /\ ~src.orphan

\* the ids of the sources registered with the main loop
SourceIds(srcs) == { src.id : src \in srcs }

(* C16: cancelling when no refresh callback is scheduled is a no-op.  The  *)
(* stop action invoked while the Timer is already Stopped, and disable()   *)
(* on a popup that never started, cancel no live source and leave the      *)
(* Timer Stopped with no callback scheduled.                               *)
C16_StopWhileStoppedIsNoOp ==
    [][ ( \/ StopClick /\ isStopped(timer)
          \/ Disable /\ isStopped(timer) /\ timerPopup[1].timeout = Null )
        => /\ isStopped(timer')
           /\ SourceIds(sources') = SourceIds(sources)
           /\ sources' = {}
      ]_vars

(* C19: 'Done!' is produced only for a countdown whose deadline has been   *)
(* reached.  Once the user has stopped a countdown before its deadline, no *)
(* 'Done!' notification and no 'Done!' label is produced for it.           *)
C19_NoDoneAfterUserStop ==
    (run # Null /\ run[1].userStopped) =>
        /\ notified = 0
        /\ timerPopup # Null => timerPopup[1].panelLabel # "Done!"

(* C20: Timer.update() called while the Timer is Stopped changes nothing   *)
(* observable: the state stays Stopped and the remaining time stays        *)
(* 00:00:00, whatever stale finishTimestamp is left.                       *)
C20_UpdateWhileStoppedIsNoOp ==
    \A i \in DOMAIN calls :
        (calls[i].op = "update" /\ calls[i].from = STATE_STOP) =>
            /\ isStopped(calls[i].timer)
            /\ calls[i].timer.time = Time(0, 0, 0)

(* C12: the transition operations are guarded by the state.  start()       *)
(* called while Playing or Paused, pause() called while Stopped or Paused  *)
(* and resume() called while Stopped or Playing leave state,               *)
(* finishTimestamp, pauseTimestamp and the remaining time unchanged (the   *)
(* methods have no way to signal an error).                                *)
C12_InvalidCallsChangeNothing ==
    [][ ( \/ ApiStart /\ ~isStopped(timer)
          \/ ApiPause /\ ~isPlaying(timer)
          \/ ApiResume /\ ~isPaused(timer) )
        => /\ timer'.state = timer.state
           /\ timer'.finishTimestamp = timer.finishTimestamp
           /\ timer'.pauseTimestamp = timer.pauseTimestamp
           /\ timer'.mcsLeft = timer.mcsLeft
           /\ timer'.time = timer.time
      ]_vars

(* C18: every remaining value r > 0 that update() computes while Playing   *)
(* is decomposed by truncation: hours = floor(r / HOUR), minutes =         *)
(* floor(r / MINUTE) mod 60, seconds = floor(r / SECOND) mod 60, so that   *)
(* hours * 3600 + minutes * 60 + seconds = floor(r / SECOND).              *)
C18_FloorDecomposition ==
    \A i \in DOMAIN calls :
        ( /\ \/ calls[i].op = "start"
             \/ calls[i].op = "update" /\ calls[i].from = STATE_PLAY
          /\ calls[i].timer.mcsLeft[1] > 0 )
        => LET r    == calls[i].timer.mcsLeft[1]
               time == calls[i].timer.time
           IN  /\ Hours(time) = r \div HOUR_TO_MS
               /\ Minutes(time) = (r \div MINUTE_TO_MS) % 60
               /\ Seconds(time) = (r \div SECOND_TO_MS) % 60
               /\ TotalSeconds(time) = r \div SECOND_TO_MS

\* an update() half a second after the start of a countdown of 01:01:01 has
\* left 01:01:00: the half second is dropped, not rounded up
C18_Witness ==
    \E i \in DOMAIN calls :
        /\ calls[i].op = "update" /\ calls[i].from = STATE_PLAY
        /\ calls[i].timer.mcsLeft = <<DurationOf(Time(1, 1, 1)) - TIMEOUT_INTERVAL>>
        /\ calls[i].timer.time = Time(1, 1, 0)

\* the number of the refresh that ran last in the countdown: 0 for the
\* update of the play click, k for the k-th tick
RefreshNumber ==
    LET last == CHOOSE i \in UpdateCalls : \A j \in UpdateCalls : j <= i
    IN  (calls[last].now[1] - run[1].startedAt) \div TIMEOUT_INTERVAL

\* the ticks of a 5 second countdown
FiveSeconds == 5 * SECOND_TO_MS
LastTick == FiveSeconds \div TIMEOUT_INTERVAL

(* C17 as stated: in a 5 second countdown refreshed every 500 ms the Timer *)
(* stops at the 10th tick with one notification, and the 10 remaining      *)
(* values displayed before are distinct and strictly decreasing: every     *)
(* tick before the 10th displays less than was displayed before it.        *)
C17_TenDistinctValues ==
    [][ (run # Null /\ run[1].duration = FiveSeconds /\ Tick)
        => IF isStopped(timer')
           THEN clock = run[1].startedAt + FiveSeconds /\ notified' = 1
           ELSE /\ TotalSeconds(timer'.time) < TotalSeconds(timer.time)
                /\ timerPopup'[1].panelLabel # timerPopup[1].panelLabel
      ]_vars

(* C17 as amended: the Timer stops at the 10th tick, 5000 ms after the     *)
(* start, with one 'Done!' and no source left.  Before it the display      *)
(* receives 10 remaining values, from the update of the play click and     *)
(* from ticks 1..9: refresh k finds mcsLeft = 5000 - 500 k, strictly       *)
(* decreasing, and displays its whole seconds 00:00:05, 04, 04, 03, 03,    *)
(* 02, 02, 01, 01, 00, which never increase but are only six distinct      *)
(* texts.                                                                  *)
C17_FiveSecondCountdown ==
    (run # Null /\ run[1].duration = FiveSeconds) =>
        LET k == RefreshNumber
        IN  /\ k \in 0..LastTick
            /\ k < LastTick =>
                 /\ isPlaying(timer)
                 /\ timer.mcsLeft = <<FiveSeconds - k * TIMEOUT_INTERVAL>>
                 /\ timerPopup[1].panelLabel
                        = getFormatted(Time(0, 0, (LastTick - k) \div 2))
                 /\ notified = 0
                 /\ \E src \in sources :
                        /\ sources = {src}
                        /\ src.due = run[1].startedAt + (k + 1) * TIMEOUT_INTERVAL
            /\ k = LastTick =>
                 /\ isStopped(timer)
                 /\ timerPopup[1].panelLabel = "Done!"
                 /\ notified = 1
                 /\ sources = {}

\* the 10th tick of a 5 second countdown has run
C17_Witness ==
    /\ run # Null
    /\ run[1].duration = FiveSeconds
    /\ handler = "tick"
    /\ clock = run[1].startedAt + FiveSeconds
    /\ isStopped(timer)
    /\ notified = 1
    /\ timerPopup[1].panelLabel = "Done!"

(* C21: whenever no handler is running, the label of the play menu item    *)
(* names the action a click performs: 'Start' when the Timer is Stopped,   *)
(* 'Pause' when Playing, 'Resume' when Paused, also after disable() and    *)
(* enable() with a countdown in progress.                                  *)
C21_PlayLabelMatchesState ==
    timerPopup # Null =>
        timerPopup[1].playLabel = playStateLabelMap(timer.state)

(* C22: after disable() no refresh callback registered by the destroyed    *)
(* popup remains scheduled: every source registered with the main loop     *)
(* belongs to the popup that exists, and none is left while there is no    *)
(* popup.                                                                  *)
C22_NoSourceOfDestroyedPopup ==
    /\ \A src \in sources : ~src.orphan
    /\ timerPopup = Null => sources = {}

(* C23: the duration the sliders produce is a valid duration.  For every   *)
(* slider position handleTimeInput stores in options.time integers with    *)
(* 0 <= hours <= MAX_HOURS, 0 <= minutes <= 59 and 0 <= seconds <= 59, and *)
(* that is the duration startTimer copies into the Timer.                  *)
C23_SliderDurationValid ==
    /\ timerPopup # Null =>
         LET time == timerPopup[1].options
         IN  /\ Hours(time) \in 0..MAX_HOURS
             /\ Minutes(time) \in 0..59
             /\ Seconds(time) \in 0..59
    /\ \A i \in DOMAIN calls :
         calls[i].op = "setTime" =>
             /\ Hours(calls[i].timer.time) \in 0..MAX_HOURS
             /\ Minutes(calls[i].timer.time) \in 0..59
             /\ Seconds(calls[i].timer.time) \in 0..59

====
